---- MODULE Spec2Model ----
(***************************************************************************)
(* Model of x/rewards/ante/min_cons_fee.go: MinFeeDecorator.AnteHandle and *)
(* MinFeeDecorator.getContractFlatFees.                                    *)
(*                                                                         *)
(* One AnteHandle call is one step.  The transaction, the simulate flag    *)
(* and the x/rewards keeper's answers (minimum consensus fee, flat fees)   *)
(* are drawn in Init; the step records the outcome, the computed minimum   *)
(* fee, the accumulated flat fees and the keeper/codec calls made.         *)
(***************************************************************************)
EXTENDS Integers, Sequences, FiniteSets

VARIABLES tx, simulate, minConsFee, flatFees, pc, result

vars == <<tx, simulate, minConsFee, flatFees, pc, result>>

---------------------------------------------------------------------------
(* Bounds of the model *)

\* sdk.Dec keeps 18 decimal digits; the model keeps DecPrecision of them
DecPrecision == 3
\* largest gas limit of a transaction
MaxGas == 3
\* largest amount of one coin of the declared fee
MaxFeeAmount == 2
\* longest list of top-level messages
MaxMsgs == 2
\* longest list of sub-messages of one authz.MsgExec
MaxSub == 2
\* deepest nesting of authz.MsgExec inside authz.MsgExec
MaxDepth == 2

---------------------------------------------------------------------------
(* sdk.Dec: a decimal is the integer  value * 10^DecPrecision *)

RECURSIVE Pow10(_)
Pow10(n) == IF n = 0 THEN 1 ELSE 10 * Pow10(n - 1)

precisionReuse == Pow10(DecPrecision)
fivePrecision == precisionReuse \div 2

\* a plausible slip: ties always rounded up (round half up)
chopPrecisionAndRoundHalfUp(d) ==
    LET a == IF d < 0 THEN 0 - d ELSE d
        quo == a \div precisionReuse
        rem == a % precisionReuse
        r == IF rem < fivePrecision THEN quo ELSE quo + 1
    IN  IF d < 0 THEN 0 - r ELSE r

\* the rounding of a non-negative scaled integer: drop the fractional
\* digits, round to nearest, an exact half goes to the even neighbour
chopNonNegative(d) ==
    LET quo == d \div precisionReuse
        rem == d % precisionReuse
    IN  IF rem = 0 THEN quo
        ELSE IF rem < fivePrecision THEN quo
        ELSE IF rem > fivePrecision THEN quo + 1
        ELSE IF quo % 2 = 0 THEN quo ELSE quo + 1

\* sdk.Dec chopPrecisionAndRound: a negative value is negated, rounded and
\* negated back
chopPrecisionAndRound(d) ==
    IF d < 0 THEN 0 - chopNonNegative(0 - d) ELSE chopNonNegative(d)

\* pkg.NewDecFromUint64(v): the decimal with integer value v
NewDecFromUint64(v) == v * precisionReuse

\* Dec.Mul: multiply the scaled integers, chop the extra digits with rounding
Mul(d1, d2) == chopPrecisionAndRound(d1 * d2)

\* Dec.RoundInt: the decimal rounded to an integer
RoundInt(d) == chopPrecisionAndRound(d)

\* a plausible slip: a sign test in place of the zero test
DecIsNegative(d) == d < 0

\* Dec.IsZero on the gas limit
DecIsZero(d) == d = 0

\* DecCoin.IsZero on the minimum consensus fee
DecCoinIsZero(c) == c.amount = 0

---------------------------------------------------------------------------
(* sdk.Coins: a list of coins sorted by denomination *)

DenomOrder == <<"stake", "uarch">>
Denoms == {DenomOrder[i] : i \in 1..Len(DenomOrder)}
DenomRank(d) == CHOOSE i \in 1..Len(DenomOrder) : DenomOrder[i] = d

Coin(d, a) == [denom |-> d, amount |-> a]
NilCoins == <<>>

\* Coins.AmountOf
AmountOf(coins, denom) ==
    IF \E i \in 1..Len(coins) : coins[i].denom = denom
    THEN (coins[CHOOSE i \in 1..Len(coins) : coins[i].denom = denom]).amount
    ELSE 0

\* a plausible slip: strictly greater in place of greater or equal
IsAnyGT(coins, coinsB) ==
    /\ Len(coinsB) # 0
    /\ \E i \in 1..Len(coins) :
          LET amt == AmountOf(coinsB, coins[i].denom)
          IN  coins[i].amount > amt /\ amt # 0

\* Coins.IsAnyGTE
IsAnyGTE(coins, coinsB) ==
    /\ Len(coinsB) # 0
    /\ \E i \in 1..Len(coins) :
          LET amt == AmountOf(coinsB, coins[i].denom)
          IN  coins[i].amount >= amt /\ amt # 0

RECURSIVE removeZeroCoins(_)
removeZeroCoins(coins) ==
    IF coins = <<>> THEN <<>>
    ELSE IF Head(coins).amount = 0 THEN removeZeroCoins(Tail(coins))
    ELSE <<Head(coins)>> \o removeZeroCoins(Tail(coins))

\* Coins.Add (safeAdd): merge of two sorted lists, equal denominations
\* summed, zero coins dropped
RECURSIVE safeAdd(_, _)
safeAdd(coinsA, coinsB) ==
    IF coinsA = <<>> THEN removeZeroCoins(coinsB)
    ELSE IF coinsB = <<>> THEN removeZeroCoins(coinsA)
    ELSE LET a == Head(coinsA)
             b == Head(coinsB)
         IN  IF DenomRank(a.denom) < DenomRank(b.denom)
             THEN removeZeroCoins(<<a>>) \o safeAdd(Tail(coinsA), coinsB)
             ELSE IF a.denom = b.denom
             THEN removeZeroCoins(<<Coin(a.denom, a.amount + b.amount)>>)
                      \o safeAdd(Tail(coinsA), Tail(coinsB))
             ELSE removeZeroCoins(<<b>>) \o safeAdd(coinsA, Tail(coinsB))

NoErr == "nil"

\* Coins.Validate: valid denominations, positive amounts, strictly sorted
Validate(coins) ==
    IF /\ \A i \in 1..Len(coins) :
             coins[i].denom \in Denoms /\ coins[i].amount > 0
       /\ \A i \in 1..Len(coins), j \in 1..Len(coins) :
             i < j => DenomRank(coins[i].denom) < DenomRank(coins[j].denom)
    THEN NoErr
    ELSE "InvalidFeeAmount"

\* a plausible slip turned fix: the sum is assigned back to the receiver
StmtAddAssign(flatfee, fee) == safeAdd(flatfee, <<fee>>)

\* the statement `flatfee.Add(fee)`: Coins.Add has a value receiver and
\* returns the sum; the statement drops it, the receiver stays as it was
StmtAdd(flatfee, fee) == flatfee

---------------------------------------------------------------------------
(* Messages *)

\* sdk.Msg: wasm MsgExecuteContract, authz MsgExec, or any other message.
\* msgs is the MsgExec's list of packed sub-messages (codec Any values).
MsgExecuteContract(c) == [type |-> "MsgExecuteContract", contract |-> c, msgs |-> <<>>]
MsgExec(anys) == [type |-> "MsgExec", contract |-> "", msgs |-> anys]
MsgSend == [type |-> "MsgSend", contract |-> "", msgs |-> <<>>]

\* A packed sub-message: bytes the codec resolves to a message, or bytes
\* it cannot resolve.
Pack(m) == [decodable |-> TRUE, msg |-> m]
Garbage == [decodable |-> FALSE, msg |-> MsgSend]

\* contract addresses: two well-formed bech32 strings and a malformed one
Contracts == {"c1", "c2"}
BadAddress == "bad"

\* a plausible slip: every string taken for an address
AccAddressFromBech32Lenient(s) == [err |-> FALSE, addr |-> s]

\* sdk.AccAddressFromBech32
AccAddressFromBech32(s) == [err |-> s \notin Contracts, addr |-> s]

\* a plausible slip: the decode error dropped
UnpackAnyLenient(v) == [err |-> FALSE, msg |-> v.msg]

\* codec.UnpackAny
UnpackAny(v) == [err |-> ~v.decodable, msg |-> v.msg]

---------------------------------------------------------------------------
(* The x/rewards keeper, RewardsFeeReaderExpected *)

NoCoin == Coin("", 0)
NoFlatFee == [found |-> FALSE, fee |-> NoCoin]

\* GetMinConsensusFee(ctx) -> (sdk.DecCoin, bool)
GetMinConsensusFee(mcf) == mcf

\* GetFlatFee(ctx, contractAddr) -> (sdk.Coin, bool)
GetFlatFee(ff, contractAddr) ==
    IF contractAddr \in DOMAIN ff THEN ff[contractAddr] ELSE NoFlatFee

\* the record of one keeper or codec call
CallMinConsensusFee == [fn |-> "GetMinConsensusFee", contract |-> "", any |-> Garbage]
CallFlatFee(c) == [fn |-> "GetFlatFee", contract |-> c, any |-> Garbage]
CallUnpackAny(v) == [fn |-> "UnpackAny", contract |-> "", any |-> v]

---------------------------------------------------------------------------
(* getContractFlatFees *)

RECURSIVE addAll(_, _)
\* `for _, fee := range fees { flatfee.Add(fee) }`
addAll(flatfee, fees) ==
    IF fees = <<>> THEN flatfee
    ELSE addAll(StmtAdd(flatfee, Head(fees)), Tail(fees))

RECURSIVE getContractFlatFees(_, _)
RECURSIVE execLoop(_, _, _, _, _)

\* the loop over msg.Msgs of an authz.MsgExec, from index i on, with the
\* flat fees and the calls accumulated so far
execLoop(ff, anys, i, flatfee, calls) ==
    IF i > Len(anys)
    THEN [fees |-> flatfee, err |-> Validate(flatfee), calls |-> calls]
    ELSE LET u == UnpackAny(anys[i])
             calls1 == Append(calls, CallUnpackAny(anys[i]))
         IN  IF u.err
             THEN [fees |-> NilCoins, err |-> "UnauthorizedPayload", calls |-> calls1]
             ELSE LET r == getContractFlatFees(ff, u.msg)
                      calls2 == calls1 \o r.calls
                  IN  IF r.err # NoErr
                      THEN [fees |-> NilCoins, err |-> r.err, calls |-> calls2]
                      ELSE execLoop(ff, anys, i + 1, addAll(flatfee, r.fees), calls2)

getContractFlatFees(ff, m) ==
    IF m.type = "MsgExecuteContract"
    THEN LET ca == AccAddressFromBech32(m.contract)
         IN  IF ca.err
             THEN [fees |-> NilCoins, err |-> "InvalidAddress", calls |-> <<>>]
             ELSE LET r == GetFlatFee(ff, ca.addr)
                      flatfee == IF r.found THEN StmtAdd(NilCoins, r.fee) ELSE NilCoins
                  IN  [fees |-> flatfee, err |-> Validate(flatfee),
                       calls |-> <<CallFlatFee(ca.addr)>>]
    ELSE IF m.type = "MsgExec"
    THEN execLoop(ff, m.msgs, 1, NilCoins, <<>>)
    ELSE [fees |-> NilCoins, err |-> Validate(NilCoins), calls |-> <<>>]

---------------------------------------------------------------------------
(* AnteHandle *)

Outcome(o, minFee, flatfee, calls) ==
    [outcome |-> o, minFeeExpected |-> minFee, flatfee |-> flatfee, calls |-> calls]

RECURSIVE msgLoop(_, _, _, _, _)
\* the loop over tx.GetMsgs(), from index i on
msgLoop(ff, msgs, i, flatfee, calls) ==
    IF i > Len(msgs)
    THEN [fees |-> flatfee, err |-> NoErr, calls |-> calls]
    ELSE LET r == getContractFlatFees(ff, msgs[i])
             calls1 == calls \o r.calls
         IN  IF r.err # NoErr
             THEN [fees |-> flatfee, err |-> r.err, calls |-> calls1]
             ELSE msgLoop(ff, msgs, i + 1, addAll(flatfee, r.fees), calls1)

\* a plausible slip: only an unset price skips the check
minFeeUnsetOnly(found, gasUnitPrice) == ~found

\* `!found || gasUnitPrice.IsZero()`
minFeeUndefined(found, gasUnitPrice) == ~found \/ DecCoinIsZero(gasUnitPrice)

\* AnteHandle after the simulation skip: the fee check proper
checkMinFee(t, mcf, ff) ==
    IF ~t.isFeeTx
    THEN Outcome("MalformedTransaction", NoCoin, NilCoins, <<>>)
    ELSE
    LET k == GetMinConsensusFee(mcf)
        gasUnitPrice == k.price
        calls0 == <<CallMinConsensusFee>>
    IN
    IF minFeeUndefined(k.found, gasUnitPrice)
    THEN Outcome("Proceed", NoCoin, NilCoins, calls0)
    ELSE
    LET txFees == t.fee
        txGasLimit == NewDecFromUint64(t.gas)
    IN
    IF DecIsZero(txGasLimit)
    THEN Outcome("InvalidGasLimit", NoCoin, NilCoins, calls0)
    ELSE
    LET minFeeExpected == Coin(gasUnitPrice.denom,
                               RoundInt(Mul(gasUnitPrice.amount, txGasLimit)))
        d == msgLoop(ff, t.msgs, 1, NilCoins, calls0)
    IN
    IF d.err # NoErr
    THEN Outcome(d.err, minFeeExpected, d.fees, d.calls)
    ELSE IF minFeeExpected.amount = 0 \/ IsAnyGTE(txFees, <<minFeeExpected>>)
    THEN Outcome("Proceed", minFeeExpected, d.fees, d.calls)
    ELSE Outcome("InsufficientFee", minFeeExpected, d.fees, d.calls)

\* a plausible slip: the transaction's shape tested before the simulation skip
AnteHandleShapeFirst(t, sim, mcf, ff) ==
    IF ~t.isFeeTx THEN Outcome("MalformedTransaction", NoCoin, NilCoins, <<>>)
    ELSE IF sim THEN Outcome("Proceed", NoCoin, NilCoins, <<>>)
    ELSE checkMinFee(t, mcf, ff)

\* MinFeeDecorator.AnteHandle; "Proceed" is `return next(ctx, tx, simulate)`
AnteHandle(t, sim, mcf, ff) ==
    IF sim THEN Outcome("Proceed", NoCoin, NilCoins, <<>>)
    ELSE checkMinFee(t, mcf, ff)

---------------------------------------------------------------------------
(* Inputs *)

SeqsUpTo(S, n) == UNION {[1..k -> S] : k \in 0..n}
SeqsFrom1(S, n) == UNION {[1..k -> S] : k \in 1..n}

\* valid sdk.Coins over Denoms with amounts up to n
CoinsUpTo(n) ==
    {removeZeroCoins([i \in 1..Len(DenomOrder) |-> Coin(DenomOrder[i], f[DenomOrder[i]])]) :
        f \in [Denoms -> 0..n]}

\* prices: 0, the smallest unit, 0.25, 0.5, just over 0.5, 1.5
PriceAmounts ==
    {0, 1, fivePrecision \div 2, fivePrecision, fivePrecision + 1,
     precisionReuse + fivePrecision}

Unset == [found |-> FALSE, price |-> NoCoin]
MinConsFees ==
    {Unset} \cup {[found |-> TRUE, price |-> Coin(d, a)] : d \in Denoms, a \in PriceAmounts}

\* a flat fee per contract: none, a positive coin of either denomination,
\* or a coin the keeper should never hold (sdk.Coin's amount is signed)
FlatFeeOptions ==
    {NoFlatFee,
     [found |-> TRUE, fee |-> Coin("uarch", 1)],
     [found |-> TRUE, fee |-> Coin("stake", 2)],
     [found |-> TRUE, fee |-> Coin("uarch", 0 - 1)]}
FlatFeeMaps == [Contracts -> FlatFeeOptions]

LeafMsgs == {MsgExecuteContract(c) : c \in Contracts \cup {BadAddress}} \cup {MsgSend}
LeafAnys == {Pack(MsgExecuteContract(c)) : c \in Contracts \cup {BadAddress}} \cup {Garbage}

\* a packed sub-message inside k single-element MsgExec wrappers
RECURSIVE Wrapped(_, _)
Wrapped(a, k) == IF k = 0 THEN a ELSE Pack(MsgExec(<<Wrapped(a, k - 1)>>))

NestedAnys == {Garbage, Pack(MsgExecuteContract(BadAddress)), Pack(MsgExecuteContract("c1"))}

\* packed sub-messages holding MsgExec nested up to d deep in total
AnysAt(d) == LeafAnys \cup {Wrapped(a, k) : a \in NestedAnys, k \in 1..(d - 1)}

SimpleMsgs ==
    LeafMsgs \cup {MsgExec(<<Garbage>>), MsgExec(<<Pack(MsgExecuteContract("c1"))>>)}
DeepMsgs == {MsgExec(anys) : anys \in SeqsFrom1(AnysAt(MaxDepth), MaxSub)}

\* message lists: short lists of simple messages, and single deep trees
TreeTxMsgs == SeqsUpTo(SimpleMsgs, MaxMsgs) \cup {<<m>> : m \in DeepMsgs}
FeeTxMsgs ==
    {<<>>, <<MsgSend>>, <<MsgExecuteContract("c1")>>, <<MsgExecuteContract(BadAddress)>>,
     <<MsgExec(<<Garbage>>)>>,
     <<MsgExec(<<Pack(MsgExecuteContract("c1")), Pack(MsgExecuteContract("c2"))>>)>>}

FeeTx(fee, gas, msgs) == [isFeeTx |-> TRUE, fee |-> fee, gas |-> gas, msgs |-> msgs]
PlainTx(msgs) == [isFeeTx |-> FALSE, fee |-> NilCoins, gas |-> 0, msgs |-> msgs]

NoResult == [outcome |-> "none", minFeeExpected |-> NoCoin, flatfee |-> NilCoins, calls |-> <<>>]

\* every price, fee, gas limit and shape, a few message lists
InitFee ==
    /\ tx \in {FeeTx(f, g, m) : f \in CoinsUpTo(MaxFeeAmount), g \in 0..MaxGas, m \in FeeTxMsgs}
              \cup {PlainTx(m) : m \in FeeTxMsgs}
    /\ simulate \in BOOLEAN
    /\ minConsFee \in MinConsFees
    /\ flatFees \in {[c \in Contracts |-> NoFlatFee],
                      [c \in Contracts |-> [found |-> TRUE, fee |-> Coin("uarch", 1)]]}

\* every message tree and flat-fee table, a price of 0.5 uarch: the minimum
\* rounds to zero for a gas limit of 1 and is covered by the fee otherwise
InitTree ==
    /\ tx \in {FeeTx(<<Coin("uarch", a)>>, g, m) :
                  a \in {MaxFeeAmount}, g \in {1, MaxGas}, m \in TreeTxMsgs}
    /\ simulate = FALSE
    /\ minConsFee = [found |-> TRUE, price |-> Coin("uarch", fivePrecision)]
    /\ flatFees \in FlatFeeMaps

Init ==
    /\ pc = "start"
    /\ result = NoResult
    /\ (InitFee \/ InitTree)

\* one AnteHandle call
DoAnteHandle ==
    /\ pc = "start"
    /\ result' = AnteHandle(tx, simulate, minConsFee, flatFees)
    /\ pc' = "done"
    /\ UNCHANGED <<tx, simulate, minConsFee, flatFees>>

Next == DoAnteHandle

Spec == Init /\ [][Next]_vars

---------------------------------------------------------------------------
(* What the claims speak about, stated on the inputs *)

Done == pc = "done"
Active == minConsFee.found /\ minConsFee.price.amount # 0

\* the call gets as far as computing the minimum fee and walking the messages
ReachesDiscovery == ~simulate /\ tx.isFeeTx /\ Active /\ tx.gas > 0

\* The message tree in iteration order: top-level messages left to right,
\* sub-messages depth first.  An event is a MsgExecuteContract met or a
\* packed sub-message met.
ExecEvent(c) == [kind |-> "exec", contract |-> c, any |-> Garbage]
AnyEvent(v) == [kind |-> "any", contract |-> "", any |-> v]

RECURSIVE Walk(_)
RECURSIVE WalkAnys(_)
Walk(m) ==
    IF m.type = "MsgExecuteContract" THEN <<ExecEvent(m.contract)>>
    ELSE IF m.type = "MsgExec" THEN WalkAnys(m.msgs)
    ELSE <<>>
WalkAnys(anys) ==
    IF anys = <<>> THEN <<>>
    ELSE LET v == Head(anys)
         IN  <<AnyEvent(v)>> \o (IF v.decodable THEN Walk(v.msg) ELSE <<>>)
                 \o WalkAnys(Tail(anys))

RECURSIVE WalkAll(_)
WalkAll(msgs) == IF msgs = <<>> THEN <<>> ELSE Walk(Head(msgs)) \o WalkAll(Tail(msgs))

Events == WalkAll(tx.msgs)

BadExec(e) == e.kind = "exec" /\ e.contract \notin Contracts
Undecodable(e) == e.kind = "any" /\ ~e.any.decodable
Fails(e) == BadExec(e) \/ Undecodable(e)

Failing == {i \in 1..Len(Events) : Fails(Events[i])}
FirstFailing == CHOOSE i \in Failing : \A j \in Failing : i <= j
ErrorOf(e) == IF BadExec(e) THEN "InvalidAddress" ELSE "UnauthorizedPayload"

\* the keeper and codec calls the events 1..n stand for
RECURSIVE CallsOf(_, _)
CallsOf(ev, n) ==
    IF n = 0 THEN <<>>
    ELSE CallsOf(ev, n - 1) \o
         (IF ev[n].kind = "any" THEN <<CallUnpackAny(ev[n].any)>>
          ELSE IF BadExec(ev[n]) THEN <<>>
          ELSE <<CallFlatFee(ev[n].contract)>>)

\* the sum, in one denomination, of the flat fees registered for the
\* contracts of the MsgExecuteContract events of ev[1..n]
RECURSIVE FlatFeeSum(_, _, _)
FlatFeeSum(ev, n, denom) ==
    IF n = 0 THEN 0
    ELSE FlatFeeSum(ev, n - 1, denom) +
         (IF /\ ev[n].kind = "exec"
             /\ ev[n].contract \in Contracts
             /\ flatFees[ev[n].contract].found
             /\ flatFees[ev[n].contract].fee.denom = denom
          THEN flatFees[ev[n].contract].fee.amount ELSE 0)

\* price * gas limit in units of 10^-DecPrecision, and the computed minimum
Product == minConsFee.price.amount * tx.gas
Rounded == result.minFeeExpected.amount

FeeCovers(exp) ==
    \E i \in 1..Len(tx.fee) :
        tx.fee[i].denom = exp.denom /\ tx.fee[i].amount >= exp.amount

---------------------------------------------------------------------------
(* Claims *)

\* C1: a call with simulate = true proceeds, whatever the transaction's
\* shape, fee, gas limit and messages and whatever the keeper holds.
C1_SimulateProceeds ==
    (Done /\ simulate) => result.outcome = "Proceed"

C1_Witness ==
    /\ Done /\ simulate /\ ~tx.isFeeTx
    /\ result.outcome = "Proceed"

\* C2 as written: whenever the minimum consensus fee is not found or is
\* zero, the call proceeds.
C2_UnsetProceeds ==
    (Done /\ ~Active) => result.outcome = "Proceed"

\* C2 amended: whenever the minimum consensus fee is not found or is zero
\* and the call simulates or the transaction is a FeeTx, the call proceeds.
C2_UnsetProceedsFeeTx ==
    (Done /\ ~Active /\ (simulate \/ tx.isFeeTx)) => result.outcome = "Proceed"

C2_Witness ==
    /\ Done /\ ~simulate /\ tx.isFeeTx
    /\ minConsFee.found /\ minConsFee.price.amount = 0
    /\ tx.gas = 0 /\ tx.fee = NilCoins
    /\ result.outcome = "Proceed"

\* C3 as written: with a found, nonzero minimum price and a gas limit of
\* 0 the outcome is InvalidGasLimit.
C3_ZeroGasRejected ==
    (Done /\ tx.isFeeTx /\ Active /\ tx.gas = 0) => result.outcome = "InvalidGasLimit"

\* C3 amended: with simulate = false, a found, nonzero minimum price and a
\* gas limit of 0 the outcome is InvalidGasLimit.
C3_ZeroGasRejectedNoSim ==
    (Done /\ ~simulate /\ tx.isFeeTx /\ Active /\ tx.gas = 0)
        => result.outcome = "InvalidGasLimit"

C3_Witness ==
    /\ Done /\ ~simulate /\ tx.isFeeTx /\ Active /\ tx.gas = 0
    /\ tx.fee # NilCoins
    /\ result.outcome = "InvalidGasLimit"

\* C4: when the minimum fee is computed and no message fails, the call
\* proceeds exactly when the minimum is zero or the declared fee has a coin
\* of the minimum's denomination with at least its amount; otherwise the
\* outcome is InsufficientFee.
C4_FeeDecision ==
    (Done /\ ReachesDiscovery /\ Failing = {}) =>
        LET exp == result.minFeeExpected
        IN  IF exp.amount = 0 \/ FeeCovers(exp)
            THEN result.outcome = "Proceed"
            ELSE result.outcome = "InsufficientFee"

\* the boundary: a fee coin equal to a positive minimum passes
C4_Witness ==
    /\ Done /\ ReachesDiscovery /\ Failing = {}
    /\ result.minFeeExpected.amount > 0
    /\ \E i \in 1..Len(tx.fee) :
          /\ tx.fee[i].denom = result.minFeeExpected.denom
          /\ tx.fee[i].amount = result.minFeeExpected.amount
    /\ result.outcome = "Proceed"

\* C5: flat-fee discovery of a message none of whose parts fails returns,
\* per denomination, the sum of the flat fees registered for the contracts
\* of every MsgExecuteContract in the message's tree.
C5_FlatFeeSum ==
    (Done /\ ReachesDiscovery /\ Failing = {}
          /\ \A c \in Contracts : flatFees[c].found => flatFees[c].fee.amount > 0) =>
        \A k \in 1..Len(tx.msgs) :
            LET r == getContractFlatFees(flatFees, tx.msgs[k])
                ev == Walk(tx.msgs[k])
            IN  /\ r.err = NoErr
                /\ \A d \in Denoms : AmountOf(r.fees, d) = FlatFeeSum(ev, Len(ev), d)

\* C6 as written: a tree with an undecodable sub-message always ends in
\* UnauthorizedPayload.
C6_UndecodableUnauthorized ==
    (Done /\ ReachesDiscovery /\ \E i \in 1..Len(Events) : Undecodable(Events[i]))
        => result.outcome = "UnauthorizedPayload"

\* C6 amended: a tree with an undecodable sub-message ends in
\* UnauthorizedPayload unless a MsgExecuteContract with an unparsable
\* address comes before the first undecodable sub-message in iteration
\* order, and then it ends in InvalidAddress; never in Proceed or
\* InsufficientFee.
C6_UndecodableRejected ==
    (Done /\ ReachesDiscovery /\ \E i \in 1..Len(Events) : Undecodable(Events[i])) =>
        LET u == CHOOSE i \in 1..Len(Events) :
                    /\ Undecodable(Events[i])
                    /\ \A j \in 1..(i - 1) : ~Undecodable(Events[j])
        IN  IF \E j \in 1..(u - 1) : BadExec(Events[j])
            THEN result.outcome = "InvalidAddress"
            ELSE result.outcome = "UnauthorizedPayload"

\* the undecodable sub-message sits two MsgExec deep, after a decodable
\* one, and the declared fee would have been enough
C6_Witness ==
    /\ Done /\ ReachesDiscovery
    /\ \E a \in LeafAnys :
          /\ a.decodable
          /\ tx.msgs = <<MsgExec(<<a, Pack(MsgExec(<<Garbage>>))>>)>>
    /\ FeeCovers(result.minFeeExpected)
    /\ result.outcome = "UnauthorizedPayload"

C9_FirstErrorWins ==
    (Done /\ ReachesDiscovery /\ Failing # {}) =>
        /\ result.outcome = ErrorOf(Events[FirstFailing])
        /\ result.calls = <<CallMinConsensusFee>> \o CallsOf(Events, FirstFailing)

\* two failing messages of different kinds, the unparsable address first,
\* a later message left unvisited, and a fee that would have been enough
C9_Witness ==
    /\ Done /\ ReachesDiscovery
    /\ Cardinality(Failing) >= 2
    /\ BadExec(Events[FirstFailing])
    /\ \E j \in Failing : Undecodable(Events[j])
    /\ (result.minFeeExpected.amount = 0 \/ FeeCovers(result.minFeeExpected))
    /\ result.outcome = "InvalidAddress"
    /\ Len(result.calls) < 1 + Len(CallsOf(Events, Len(Events)))

\* C10: the outcome is the same under every table of flat fees: no flat
\* fee turns Proceed into a rejection or causes InvalidFeeAmount.
C10_FlatFeesIgnored ==
    Done => \A ff \in FlatFeeMaps :
                AnteHandle(tx, simulate, minConsFee, ff).outcome = result.outcome

\* both contracts are executed, one of them holds a flat fee the declared
\* fee does not cover, and the call proceeds
C10_Witness ==
    /\ Done /\ ReachesDiscovery /\ Failing = {}
    /\ \A c \in Contracts : \E i \in 1..Len(Events) : Events[i] = ExecEvent(c)
    /\ flatFees["c1"] = [found |-> TRUE, fee |-> Coin("stake", 2)]
    /\ AmountOf(tx.fee, "stake") = 0
    /\ result.outcome = "Proceed"

====
